---- MODULE Spec2Model ----
(***************************************************************************)
(* A model of the zm protocol layer: the connection handler of             *)
(* zm/server.py (preamble check, null-delimited frame reader, dispatch to  *)
(* type handlers) and the message codec of zm/message.py (registry,        *)
(* encode, decode, decode_from_buffer).                                    *)
(*                                                                         *)
(* Byte strings are sequences of integers 0..255, Python str values are    *)
(* sequences of code points, and JSON values are records [k, v] tagged     *)
(* with their Python type.                                                 *)
(***************************************************************************)
EXTENDS Integers, Sequences, FiniteSets, TLC

(***************************************************************************)
(* Sequence helpers.                                                       *)
(***************************************************************************)

\* s[a..b] with Python's clamping: the empty sequence when a > b.
Slice(s, a, b) == IF a > b THEN << >> ELSE SubSeq(s, a, b)

\* Python's s[:n] and s[n:] for 0 <= n.
Take(s, n) == Slice(s, 1, IF n < Len(s) THEN n ELSE Len(s))
Drop(s, n) == Slice(s, n + 1, Len(s))

Min(a, b) == IF a < b THEN a ELSE b

\* A find that answers the length of the buffer, not -1, when the byte is
\* absent.
FindOrEnd(buf, byte) ==
    IF \E i \in 1..Len(buf) : buf[i] = byte
    THEN (CHOOSE i \in 1..Len(buf) :
              buf[i] = byte /\ \A j \in 1..(i - 1) : buf[j] # byte) - 1
    ELSE Len(buf)

\* bytes.find(b"\x00"): the 0-based index of the first 0 byte, or -1.
Find(buf, byte) ==
    IF \E i \in 1..Len(buf) : buf[i] = byte
    THEN (CHOOSE i \in 1..Len(buf) :
              buf[i] = byte /\ \A j \in 1..(i - 1) : buf[j] # byte) - 1
    ELSE -1

\* bytes.startswith(prefix)
StartsWith(buf, prefix) ==
    Len(buf) >= Len(prefix) /\ Take(buf, Len(prefix)) = prefix

IsSuffix(t, s) ==
    Len(t) <= Len(s) /\ Drop(s, Len(s) - Len(t)) = t

(***************************************************************************)
(* Text.  Ascii lists the printable ASCII characters from code 32 on, so   *)
(* Ord gives a character its code point and B spells a byte string.  The   *)
(* double quote is written "dq", the backslash "bs", the parentheses "lp"  *)
(* and "rp", the asterisk "star", the backtick "bt".                       *)
(***************************************************************************)
Ascii ==
    << " ", "!", "dq", "#", "$", "%", "&", "'", "lp", "rp", "star", "+", ",", "-",
       ".", "/", "0", "1", "2", "3", "4", "5", "6", "7", "8", "9", ":", ";",
       "<", "=", ">", "?", "@", "A", "B", "C", "D", "E", "F", "G", "H", "I",
       "J", "K", "L", "M", "N", "O", "P", "Q", "R", "S", "T", "U", "V", "W",
       "X", "Y", "Z", "[", "bs", "]", "^", "_", "bt", "a", "b", "c", "d", "e",
       "f", "g", "h", "i", "j", "k", "l", "m", "n", "o", "p", "q", "r", "s",
       "t", "u", "v", "w", "x", "y", "z", "{", "|", "}", "~" >>

Ord(c) == 31 + CHOOSE i \in 1..Len(Ascii) : Ascii[i] = c

\* The str (and, being ASCII, the UTF-8 bytes) spelled by a tuple of
\* characters.
B(chars) == [i \in 1..Len(chars) |-> Ord(chars[i])]

(***************************************************************************)
(* bytes.decode("utf-8"), strict: the code points of a well-formed UTF-8   *)
(* byte string, or failure (UnicodeDecodeError).                           *)
(***************************************************************************)
IsCont(b) == b >= 128 /\ b <= 191

\* The length of the well-formed UTF-8 sequence that starts at bs[i], or 0.
Utf8SeqLen(bs, i) ==
    LET b == bs[i]
        n == Len(bs)
    IN  IF b < 128 THEN 1
        ELSE IF b >= 194 /\ b <= 223
        THEN IF i + 1 <= n /\ IsCont(bs[i + 1]) THEN 2 ELSE 0
        ELSE IF b >= 224 /\ b <= 239
        THEN IF /\ i + 2 <= n
                /\ IsCont(bs[i + 1])
                /\ IsCont(bs[i + 2])
                /\ (b = 224 => bs[i + 1] >= 160)
                /\ (b = 237 => bs[i + 1] <= 159)
             THEN 3 ELSE 0
        ELSE IF b >= 240 /\ b <= 244
        THEN IF /\ i + 3 <= n
                /\ IsCont(bs[i + 1])
                /\ IsCont(bs[i + 2])
                /\ IsCont(bs[i + 3])
                /\ (b = 240 => bs[i + 1] >= 144)
                /\ (b = 244 => bs[i + 1] <= 143)
             THEN 4 ELSE 0
        ELSE 0

Utf8CodePoint(bs, i, n) ==
    CASE n = 1 -> bs[i]
      [] n = 2 -> (bs[i] - 192) * 64 + (bs[i + 1] - 128)
      [] n = 3 -> (bs[i] - 224) * 4096 + (bs[i + 1] - 128) * 64
                      + (bs[i + 2] - 128)
      [] n = 4 -> (bs[i] - 240) * 262144 + (bs[i + 1] - 128) * 4096
                      + (bs[i + 2] - 128) * 64 + (bs[i + 3] - 128)

RECURSIVE Utf8From(_, _, _)
Utf8From(bs, i, acc) ==
    IF i > Len(bs) THEN [ok |-> TRUE, text |-> acc]
    ELSE LET n == Utf8SeqLen(bs, i)
         IN  IF n = 0 THEN [ok |-> FALSE, text |-> << >>]
             ELSE Utf8From(bs, i + n, Append(acc, Utf8CodePoint(bs, i, n)))

Utf8Decode(bs) == Utf8From(bs, 1, << >>)

\* str.encode("utf-8") of text without surrogates.
RECURSIVE Utf8Encode(_)
Utf8Encode(text) ==
    IF text = << >> THEN << >>
    ELSE LET c == Head(text)
             enc == IF c < 128 THEN << c >>
                    ELSE IF c < 2048
                    THEN << 192 + (c \div 64), 128 + (c % 64) >>
                    ELSE IF c < 65536
                    THEN << 224 + (c \div 4096), 128 + ((c \div 64) % 64),
                            128 + (c % 64) >>
                    ELSE << 240 + (c \div 262144),
                            128 + ((c \div 4096) % 64),
                            128 + ((c \div 64) % 64), 128 + (c % 64) >>
         IN  enc \o Utf8Encode(Tail(text))

(***************************************************************************)
(* JSON values as Python objects: [k |-> type name, v |-> value].  A str   *)
(* holds its code points, a list its elements, a dict its items as         *)
(* <<key, value>> pairs in insertion order (keys are str code points), a   *)
(* float the text of its literal.                                          *)
(***************************************************************************)
JNone == [k |-> "NoneType", v |-> << >>]
JBool(b) == [k |-> "bool", v |-> b]
JInt(n) == [k |-> "int", v |-> n]
JFloat(text) == [k |-> "float", v |-> text]
JStr(text) == [k |-> "str", v |-> text]
JList(elems) == [k |-> "list", v |-> elems]
JDict(items) == [k |-> "dict", v |-> items]

\* key in d
DictHas(d, key) == \E i \in 1..Len(d.v) : d.v[i][1] = key

\* d[key], for a key that is present
DictGet(d, key) == d.v[CHOOSE i \in 1..Len(d.v) : d.v[i][1] = key][2]

\* d.get(key): None when the key is absent
DictGetOrNone(d, key) == IF DictHas(d, key) THEN DictGet(d, key) ELSE JNone

\* items after d[key] = val: an existing key keeps its place
DictSet(items, key, val) ==
    IF \E i \in 1..Len(items) : items[i][1] = key
    THEN [i \in 1..Len(items) |->
              IF items[i][1] = key THEN << key, val >> ELSE items[i]]
    ELSE Append(items, << key, val >>)

(***************************************************************************)
(* json.loads(text) for a str: the scanner of the json module.  A result   *)
(* is [ok, val, end] with end the 1-based index of the first character not *)
(* consumed; ok = FALSE stands for json.JSONDecodeError (a ValueError).    *)
(***************************************************************************)
JFail == [ok |-> FALSE, val |-> JNone, end |-> 0]
JOk(val, end) == [ok |-> TRUE, val |-> val, end |-> end]

\* text[i], or -1 past the end
At(text, i) == IF i >= 1 /\ i <= Len(text) THEN text[i] ELSE -1

\* text[i:i+len(lit)] == lit
Matches(text, i, lit) ==
    i + Len(lit) - 1 <= Len(text) /\ SubSeq(text, i, i + Len(lit) - 1) = lit

IsWs(c) == c \in {32, 9, 10, 13}
IsDigit(c) == c >= 48 /\ c <= 57

RECURSIVE SkipWs(_, _)
SkipWs(text, i) == IF IsWs(At(text, i)) THEN SkipWs(text, i + 1) ELSE i

RECURSIVE DigitsEnd(_, _)
DigitsEnd(text, i) == IF IsDigit(At(text, i)) THEN DigitsEnd(text, i + 1) ELSE i

\* int() of the decimal digits text[a..b]
RECURSIVE DecimalValue(_, _, _)
DecimalValue(text, a, b) ==
    IF a > b THEN 0
    ELSE DecimalValue(text, a, b - 1) * 10 + (text[b] - 48)

\* The value of a hexadecimal digit, or -1.
HexDigit(c) ==
    IF c >= 48 /\ c <= 57 THEN c - 48
    ELSE IF c >= 65 /\ c <= 70 THEN c - 55
    ELSE IF c >= 97 /\ c <= 102 THEN c - 87
    ELSE -1

\* The code unit of the four hexadecimal digits at text[i..i+3], or -1.
Hex4(text, i) ==
    LET d(j) == HexDigit(At(text, i + j))
    IN  IF \E j \in 0..3 : d(j) = -1 THEN -1
        ELSE d(0) * 4096 + d(1) * 256 + d(2) * 16 + d(3)

\* The character a one-letter escape stands for, or -1.
SimpleEscape(c) ==
    CASE c = 34 -> 34
      [] c = 92 -> 92
      [] c = 47 -> 47
      [] c = 98 -> 8
      [] c = 102 -> 12
      [] c = 110 -> 10
      [] c = 114 -> 13
      [] c = 116 -> 9
      [] OTHER -> -1

\* scanstring (strict) from the character after the opening quote.
RECURSIVE ScanString(_, _, _)
ScanString(text, i, acc) ==
    LET c == At(text, i)
    IN  IF c = -1 THEN JFail
        ELSE IF c = 34 THEN JOk(acc, i + 1)
        ELSE IF c < 32 THEN JFail
        ELSE IF c # 92 THEN ScanString(text, i + 1, Append(acc, c))
        ELSE LET esc == At(text, i + 1)
             IN  IF esc = -1 THEN JFail
                 ELSE IF esc # 117
                 THEN IF SimpleEscape(esc) = -1 THEN JFail
                      ELSE ScanString(text, i + 2,
                                      Append(acc, SimpleEscape(esc)))
                 ELSE LET uni == Hex4(text, i + 2)
                          uni2 == Hex4(text, i + 8)
                      IN  IF uni = -1 THEN JFail
                          ELSE IF /\ uni >= 55296 /\ uni <= 56319
                                  /\ At(text, i + 6) = 92
                                  /\ At(text, i + 7) = 117
                          THEN IF uni2 = -1 THEN JFail
                               ELSE IF uni2 >= 56320 /\ uni2 <= 57343
                               THEN ScanString(text, i + 12,
                                        Append(acc, 65536
                                            + (uni - 55296) * 1024
                                            + (uni2 - 56320)))
                               ELSE ScanString(text, i + 6, Append(acc, uni))
                          ELSE ScanString(text, i + 6, Append(acc, uni))

\* NUMBER_RE at text[i]: (-?(0|[1-9][0-9]*))(\.[0-9]+)?([eE][-+]?[0-9]+)?
ScanNumber(text, i) ==
    LET first == IF At(text, i) = 45 THEN i + 1 ELSE i
        intEnd == IF At(text, first) = 48 THEN first + 1
                  ELSE IF IsDigit(At(text, first)) THEN DigitsEnd(text, first)
                  ELSE 0
        fracEnd == IF At(text, intEnd) = 46 /\ IsDigit(At(text, intEnd + 1))
                   THEN DigitsEnd(text, intEnd + 1) ELSE intEnd
        expFrom == IF At(text, fracEnd + 1) \in {43, 45}
                   THEN fracEnd + 2 ELSE fracEnd + 1
        expEnd == IF At(text, fracEnd) \in {69, 101}
                     /\ IsDigit(At(text, expFrom))
                  THEN DigitsEnd(text, expFrom) ELSE fracEnd
        magnitude == DecimalValue(text, first, intEnd - 1)
    IN  IF intEnd = 0 THEN JFail
        ELSE IF expEnd = intEnd
        THEN JOk(JInt(IF first = i THEN magnitude ELSE 0 - magnitude), intEnd)
        ELSE JOk(JFloat(SubSeq(text, i, expEnd - 1)), expEnd)

RECURSIVE ScanOnce(_, _)
RECURSIVE JSONObjectItems(_, _, _)
RECURSIVE JSONArrayItems(_, _, _)

\* JSONObject after the value of an item: "}" ends the object, "," must be
\* followed by the opening quote of the next key.
ObjectAfterValue(text, items, key, value) ==
    LET after == SkipWs(text, value.end)
        next == SkipWs(text, after + 1)
        sofar == DictSet(items, key, value.val)
    IN  IF ~value.ok THEN JFail
        ELSE IF At(text, after) = 125 THEN JOk(JDict(sofar), after + 1)
        ELSE IF At(text, after) # 44 THEN JFail
        ELSE IF At(text, next) # 34 THEN JFail
        ELSE JSONObjectItems(text, next, sofar)

\* JSONObject after the key of an item: ":" and the value.
ObjectAfterKey(text, items, key) ==
    LET colon == SkipWs(text, key.end)
    IN  IF ~key.ok THEN JFail
        ELSE IF At(text, colon) # 58 THEN JFail
        ELSE ObjectAfterValue(text, items, key.val,
                              ScanOnce(text, SkipWs(text, colon + 1)))

\* JSONObject from the opening quote of a key at text[i].
JSONObjectItems(text, i, items) ==
    ObjectAfterKey(text, items, ScanString(text, i + 1, << >>))

\* JSONArray after an element: "]" ends the array, "," precedes the next
\* element.
ArrayAfterValue(text, elems, value) ==
    LET after == SkipWs(text, value.end)
    IN  IF ~value.ok THEN JFail
        ELSE IF At(text, after) = 93
        THEN JOk(JList(Append(elems, value.val)), after + 1)
        ELSE IF At(text, after) # 44 THEN JFail
        ELSE JSONArrayItems(text, SkipWs(text, after + 1),
                            Append(elems, value.val))

\* JSONArray from the first character of an element at text[i].
JSONArrayItems(text, i, elems) ==
    ArrayAfterValue(text, elems, ScanOnce(text, i))

\* The str scanned by scanstring as a JSON value.
StringValue(str) == IF str.ok THEN JOk(JStr(str.val), str.end) ELSE JFail

\* The constants of the scanner: null, true, false, NaN, Infinity and
\* -Infinity, each with its text.
ScanConstant(text, i) ==
    LET lits == << << "null", JNone >>, << "true", JBool(TRUE) >>,
                   << "false", JBool(FALSE) >>,
                   << "NaN", JFloat(<< 78, 97, 78 >>) >>,
                   << "Infinity",
                      JFloat(<< 73, 110, 102, 105, 110, 105, 116, 121 >>) >>,
                   << "-Infinity",
                      JFloat(<< 45, 73, 110, 102, 105, 110, 105, 116,
                                121 >>) >> >>
        spelled == << << 110, 117, 108, 108 >>, << 116, 114, 117, 101 >>,
                      << 102, 97, 108, 115, 101 >>, << 78, 97, 78 >>,
                      << 73, 110, 102, 105, 110, 105, 116, 121 >>,
                      << 45, 73, 110, 102, 105, 110, 105, 116, 121 >> >>
        hits == { n \in 1..Len(lits) : Matches(text, i, spelled[n]) }
    IN  IF hits = {} THEN JFail
        ELSE LET n == CHOOSE h \in hits : TRUE
             IN  JOk(lits[n][2], i + Len(spelled[n]))

\* A number, else a constant: null, true and false are tried before the
\* number and NaN, Infinity and -Infinity after it, and no text starts both.
NumberOrConstant(number, constant) ==
    IF number.ok THEN number ELSE constant

\* scan_once: the JSON value that starts at text[i].
ScanOnce(text, i) ==
    LET c == At(text, i)
        inner == SkipWs(text, i + 1)
    IN  IF c = 34 THEN StringValue(ScanString(text, i + 1, << >>))
        ELSE IF c = 123 THEN
            IF At(text, inner) = 125 THEN JOk(JDict(<< >>), inner + 1)
            ELSE IF At(text, inner) # 34 THEN JFail
            ELSE JSONObjectItems(text, inner, << >>)
        ELSE IF c = 91 THEN
            IF At(text, inner) = 93 THEN JOk(JList(<< >>), inner + 1)
            ELSE JSONArrayItems(text, inner, << >>)
        ELSE NumberOrConstant(ScanNumber(text, i), ScanConstant(text, i))

\* The result of json.loads for the value scan_once found: nothing but
\* whitespace may follow it.
LoadsResult(text, r) ==
    IF r.ok /\ SkipWs(text, r.end) = Len(text) + 1 THEN r ELSE JFail

\* json.loads: one value between optional whitespace, and nothing after it.
JsonLoads(text) == LoadsResult(text, ScanOnce(text, SkipWs(text, 1)))

(***************************************************************************)
(* json.dumps(value) with the default options: ensure_ascii, separators    *)
(* ", " and ": ".                                                          *)
(***************************************************************************)
HexChar(d) == IF d < 10 THEN 48 + d ELSE 87 + d

\* "\uXXXX" for a 16-bit code unit
UEscape(u) ==
    << 92, 117, HexChar(u \div 4096), HexChar((u \div 256) % 16),
       HexChar((u \div 16) % 16), HexChar(u % 16) >>

EscapeChar(c) ==
    CASE c = 34 -> << 92, 34 >>
      [] c = 92 -> << 92, 92 >>
      [] c = 10 -> << 92, 110 >>
      [] c = 13 -> << 92, 114 >>
      [] c = 9 -> << 92, 116 >>
      [] c = 12 -> << 92, 102 >>
      [] c = 8 -> << 92, 98 >>
      [] OTHER -> IF c >= 32 /\ c <= 126 THEN << c >>
                  ELSE IF c < 65536 THEN UEscape(c)
                  ELSE UEscape(55296 + ((c - 65536) \div 1024))
                           \o UEscape(56320 + ((c - 65536) % 1024))

RECURSIVE EscapeText(_)
EscapeText(text) ==
    IF text = << >> THEN << >>
    ELSE EscapeChar(Head(text)) \o EscapeText(Tail(text))

RECURSIVE DecimalText(_)
DecimalText(n) ==
    IF n < 0 THEN << 45 >> \o DecimalText(0 - n)
    ELSE IF n < 10 THEN << 48 + n >>
    ELSE Append(DecimalText(n \div 10), 48 + (n % 10))

RECURSIVE JsonDumps(_)
RECURSIVE DumpsJoin(_, _)

\* The comma-separated texts of the elements (isItems: of the dict items).
DumpsJoin(elems, isItems) ==
    IF elems = << >> THEN << >>
    ELSE LET e == Head(elems)
             one == IF isItems
                    THEN << 34 >> \o EscapeText(e[1]) \o << 34, 58, 32 >>
                             \o JsonDumps(e[2])
                    ELSE JsonDumps(e)
         IN  IF Len(elems) = 1 THEN one
             ELSE one \o << 44, 32 >> \o DumpsJoin(Tail(elems), isItems)

JsonDumps(value) ==
    CASE value.k = "NoneType" -> B(<< "n", "u", "l", "l" >>)
      [] value.k = "bool" -> IF value.v THEN B(<< "t", "r", "u", "e" >>)
                             ELSE B(<< "f", "a", "l", "s", "e" >>)
      [] value.k = "int" -> DecimalText(value.v)
      [] value.k = "float" -> value.v
      [] value.k = "str" -> << 34 >> \o EscapeText(value.v) \o << 34 >>
      [] value.k = "list" -> << 91 >> \o DumpsJoin(value.v, FALSE) \o << 93 >>
      [] value.k = "dict" -> << 123 >> \o DumpsJoin(value.v, TRUE) \o << 125 >>

(***************************************************************************)
(* zm/message.py: the registry of message classes and the codec.           *)
(***************************************************************************)
TypeTag == B(<< "t", "y", "p", "e" >>)
EntityTag == B(<< "e", "n", "t", "i", "t", "y" >>)
ErrorTag == B(<< "e", "r", "r", "o", "r" >>)
UnknownTag == B(<< "u", "n", "k", "n", "o", "w", "n" >>)

\* class ErrorMessage(Message): type_ = "error", schema = NotEmpty()
ErrorMessage == [name |-> "ErrorMessage", type_ |-> ErrorTag,
                 schema |-> "NotEmpty"]

\* MessageMeta.types once the module is imported: the metaclass has
\* registered ErrorMessage under its type_.
ImportedTypes == [t \in {ErrorTag} |-> ErrorMessage]

\* hash(value) succeeds: lists and dicts are unhashable.
IsHashable(value) == value.k \notin {"list", "dict"}

\* bool(value) is False: None, False, 0, "", and an empty list or dict
IsFalsy(value) ==
    \/ value.k = "NoneType"
    \/ value.k = "bool" /\ value.v = FALSE
    \/ value.k = "int" /\ value.v = 0
    \/ value.k \in {"str", "list", "dict"} /\ value.v = << >>

\* The outcome of a class statement under MessageMeta: the registry
\* afterwards, and the exception when it raised.
ClassRaise(registry) == [ok |-> FALSE, exc |-> "TypeError", types |-> registry]

\* A MessageMeta.__new__ that registers over a type already registered.
MessageMetaNewReplacing(registry, name, type_, schema) ==
    IF name = "Message" THEN [ok |-> TRUE, exc |-> "", types |-> registry]
    ELSE IF IsFalsy(type_) THEN ClassRaise(registry)
    ELSE IF schema = "None" THEN ClassRaise(registry)
    ELSE IF ~IsHashable(type_) THEN ClassRaise(registry)
    ELSE IF type_.k # "str" THEN ClassRaise(registry)
    ELSE [ok |-> TRUE, exc |-> "",
          types |-> [t \in DOMAIN registry \cup {type_.v} |->
                        IF t = type_.v
                        THEN [name |-> name, type_ |-> type_.v,
                              schema |-> schema]
                        ELSE registry[t]]]

\* MessageMeta.__new__(meta, name, bases, attrs) on the registry, type_ and
\* schema being attrs.get("type_") and attrs.get("schema"), the schema
\* "None" when the class sets none.
MessageMetaNew(registry, name, type_, schema) ==
    IF name = "Message" THEN [ok |-> TRUE, exc |-> "", types |-> registry]
    ELSE IF IsFalsy(type_) THEN ClassRaise(registry)
    ELSE IF schema = "None" THEN ClassRaise(registry)
    ELSE IF ~IsHashable(type_)
    THEN \* `name in meta.types` hashes the type
         ClassRaise(registry)
    ELSE IF type_.k = "str" /\ type_.v \in DOMAIN registry
    THEN ClassRaise(registry)
    ELSE IF type_.k # "str"
    THEN \* type.__new__(meta, name, bases, attrs), name being the type_
         ClassRaise(registry)
    ELSE [ok |-> TRUE, exc |-> "",
          types |-> [t \in DOMAIN registry \cup {type_.v} |->
                        IF t = type_.v
                        THEN [name |-> name, type_ |-> type_.v,
                              schema |-> schema]
                        ELSE registry[t]]]

\* formencode's FancyValidator.is_empty: None, "", and an empty list or dict
IsEmptyValue(value) ==
    \/ value.k = "NoneType"
    \/ value.k \in {"str", "list", "dict"} /\ value.v = << >>

\* A to_python that validates nothing.
SchemaToPythonLax(schema, value) == [ok |-> TRUE, exc |-> "", val |-> value]

\* schema.to_python(value) of a NotEmpty validator: formencode.Invalid for an
\* empty value, the value itself otherwise (0 and False are not empty).
SchemaToPython(schema, value) ==
    IF schema = "NotEmpty" /\ IsEmptyValue(value)
    THEN [ok |-> FALSE, exc |-> "Invalid", val |-> JNone]
    ELSE [ok |-> TRUE, exc |-> "", val |-> value]

\* schema.from_python(value): a validator that accepts Python values does
\* not validate them; an empty value becomes None.
SchemaFromPython(schema, value) ==
    IF IsEmptyValue(value)
    THEN [ok |-> TRUE, exc |-> "", val |-> JNone]
    ELSE [ok |-> TRUE, exc |-> "", val |-> value]

\* Python's a + b for a bytes object a: bytes when b is bytes, a TypeError
\* when b is a str.
BytesAdd(a, b) ==
    IF b.k = "bytes"
    THEN [ok |-> TRUE, exc |-> "", val |-> a \o b.v]
    ELSE [ok |-> FALSE, exc |-> "TypeError", val |-> << >>]

\* The terminator as Message.encode writes it: the str "\x00".
EncodeTerminator == [k |-> "str", v |-> << 0 >>]

\* Message.encode of an instance [cls, entity]: the wire bytes, or the
\* exception raised.
MessageEncode(msg) ==
    LET entity == SchemaFromPython(msg.cls.schema, msg.entity)
        text == JsonDumps(JDict(<< << TypeTag, JStr(msg.cls.type_) >>,
                                   << EntityTag, entity.val >> >>))
    IN  IF ~entity.ok THEN [ok |-> FALSE, exc |-> entity.exc, val |-> << >>]
        ELSE BytesAdd(Utf8Encode(text), EncodeTerminator)

DecodeRaise(exc) == [ok |-> FALSE, exc |-> exc, msg |-> << >>]

\* Message.decode from the object json.loads returned: the class of its
\* type and the validation of its entity.
DecodeObject(json_obj, registry) ==
    LET message_type == DictGetOrNone(json_obj.val, TypeTag)
        message_cls == registry[message_type.v]
        entity == SchemaToPython(message_cls.schema,
                                 DictGetOrNone(json_obj.val, EntityTag))
    IN  IF ~json_obj.ok THEN DecodeRaise("MessageError")
        ELSE IF json_obj.val.k # "dict" THEN DecodeRaise("MessageError")
        ELSE IF ~IsHashable(message_type) THEN DecodeRaise("TypeError")
        ELSE IF ~(message_type.k = "str"
                    /\ message_type.v \in DOMAIN registry)
        THEN DecodeRaise("MessageError")
        ELSE IF ~entity.ok THEN DecodeRaise(entity.exc)
        ELSE [ok |-> TRUE, exc |-> "",
              msg |-> << [cls |-> message_cls, entity |-> entity.val] >>]

\* Message.decode from the decoded text.
DecodeText(raw_string, registry) ==
    IF ~raw_string.ok THEN DecodeRaise("MessageError")
    ELSE DecodeObject(JsonLoads(raw_string.text), registry)

\* Message.decode(raw) against the registry: the Message instance, or the
\* exception raised.
MessageDecode(raw, registry) == DecodeText(Utf8Decode(raw), registry)

\* io.DEFAULT_BUFFER_SIZE, the buffer of io.BufferedReader(buffer_)
DEFAULT_BUFFER_SIZE == 8192

\* BufferedReader.peek(): the buffered bytes, after one read of the raw
\* stream when nothing is buffered.
ReaderPeek(rd, data, pos) ==
    IF rd # << >> THEN rd
    ELSE Slice(data, pos + 1, Min(pos + DEFAULT_BUFFER_SIZE, Len(data)))

(***************************************************************************)
(* zm/server.py: ZordzmanHandler and ZordzmanServer.                       *)
(***************************************************************************)
MAGIC_NUMBER == << 202, 195, 85 >>
PROTOCOL_VERSION == 0

\* The sizes asked of request.recv by handler() and by _read_json().
PREAMBLE_SIZE == 4
RECV_SIZE == 8192

\* A _process_message that hands the whole message to the handler.
ProcessMessagePassingMessage(message, handlers) ==
    IF /\ message.k = "dict"
       /\ DictHas(message, TypeTag)
       /\ DictHas(message, EntityTag)
       /\ DictGet(message, TypeTag).k = "str"
       /\ DictGet(message, TypeTag).v \in DOMAIN handlers
    THEN [kind |-> "call", event |-> "", exc |-> "",
          type |-> DictGet(message, TypeTag), entity |-> message]
    ELSE [kind |-> "raise", event |-> "", exc |-> "KeyError",
          type |-> JNone, entity |-> JNone]

\* The outcome of _process_message(message) with the handlers registered:
\*   "return"  it logged `event` and returned;
\*   "raise"   `exc` escaped from it;
\*   "call"    it called the handler of message["type"] with the entity.
ProcessMessage(message, handlers) ==
    LET out(kind, event, exc) ==
            [kind |-> kind, event |-> event, exc |-> exc,
             type |-> JNone, entity |-> JNone]
    IN  IF message.k # "dict"
        THEN out("return", "error: Message is not a dictionary", "")
        ELSE IF ~DictHas(message, TypeTag)
        THEN \* `"type" not in message and not isinstance(message["type"],
             \* str)` evaluates message["type"] exactly when the key is
             \* missing
             out("raise", "", "KeyError")
        ELSE IF ~DictHas(message, EntityTag)
        THEN out("return",
                 "error: Message doesn't contain an entity field", "")
        ELSE IF ~IsHashable(DictGet(message, TypeTag))
        THEN out("raise", "", "TypeError")
        ELSE IF ~(DictGet(message, TypeTag).k = "str"
                    /\ DictGet(message, TypeTag).v \in DOMAIN handlers)
        THEN \* "...'{0.type}'...".format(message) looks up the attribute
             \* `type` of a dict before anything is logged
             out("raise", "", "AttributeError")
        ELSE [kind |-> "call", event |-> "", exc |-> "",
              type |-> DictGet(message, TypeTag),
              entity |-> DictGet(message, EntityTag)]

\* The outcome of one iteration of the loop of _read_json:
\*   buffer   self.buffer afterwards,
\*   frame    the candidate frame cut from the buffer (at most one),
\*   json     the object handed to _process_message (at most one),
\*   kind     "eof", "continue", "return" (decode failure) or the kind of
\*            ProcessMessage.
StepOutcome(kind, buf, frame, json, event) ==
    [kind |-> kind, buffer |-> buf, frame |-> frame, json |-> json,
     event |-> event, exc |-> "", type |-> JNone, entity |-> JNone]

\* _read_json once _process_message has been called: when it returns the
\* loop goes on to the next recv.
ProcessedStep(message, rest, json_object, processed) ==
    [kind |-> IF processed.kind = "return" THEN "continue"
              ELSE processed.kind,
     buffer |-> rest, frame |-> << message >>,
     json |-> << json_object.val >>, event |-> processed.event,
     exc |-> processed.exc, type |-> processed.type,
     entity |-> processed.entity]

\* _read_json from the result of json.loads.
LoadedStep(message, rest, json_object, handlers) ==
    IF ~json_object.ok
    THEN StepOutcome("return", rest, << message >>, << >>,
                     "exception: Malformed JSON message")
    ELSE ProcessedStep(message, rest, json_object,
                       ProcessMessage(json_object.val, handlers))

\* _read_json from the result of message.decode("utf-8").
DecodedStep(message, rest, text, handlers) ==
    IF ~text.ok
    THEN StepOutcome("return", rest, << message >>, << >>,
                     "exception: Couldn't decode message as UTF-8")
    ELSE LoadedStep(message, rest, JsonLoads(text.text), handlers)

\* _read_json once a terminator is found: the message is cut from the
\* buffer, which keeps everything from the terminator on.
FrameStep(message, rest, handlers) ==
    DecodedStep(message, rest, Utf8Decode(message), handlers)

\* A loop that, at the end of the stream, decodes what is left in the
\* buffer as a last frame.
ReadJsonStepFlushing(buf, chunk, handlers) ==
    LET joined == buf \o chunk
        message_end == Find(joined, 0)
    IN  IF chunk = << >> /\ buf = << >>
        THEN StepOutcome("eof", buf, << >>, << >>,
                         "debug: Connection terminated by client")
        ELSE IF chunk = << >>
        THEN FrameStep(buf, << >>, handlers)
        ELSE IF message_end = -1
        THEN StepOutcome("continue", joined, << >>, << >>, "")
        ELSE FrameStep(Take(joined, message_end), Drop(joined, message_end),
                       handlers)

\* One iteration of the loop of _read_json, from the chunk recv returned to
\* the next recv, to the return, or to the call of a type handler.
ReadJsonStep(buf, chunk, handlers) ==
    LET joined == buf \o chunk
        message_end == Find(joined, 0)
    IN  IF chunk = << >>
        THEN StepOutcome("eof", buf, << >>, << >>,
                         "debug: Connection terminated by client")
        ELSE IF message_end = -1
        THEN StepOutcome("continue", joined, << >>, << >>, "")
        ELSE FrameStep(Take(joined, message_end), Drop(joined, message_end),
                       handlers)

\* A preamble check that forgets the protocol version.
PreambleCheckNoVersion(buf) ==
    IF Len(buf) < PREAMBLE_SIZE THEN "error: Incomplete protocol identifier"
    ELSE IF ~StartsWith(buf, MAGIC_NUMBER) THEN "error: Bad magic number"
    ELSE ""

\* The outcome of the preamble check of handler() on the bytes recv(4)
\* returned: "" when it passes, else the error logged.
PreambleCheck(buf) ==
    IF Len(buf) < PREAMBLE_SIZE THEN "error: Incomplete protocol identifier"
    ELSE IF ~StartsWith(buf, MAGIC_NUMBER) THEN "error: Bad magic number"
    ELSE IF buf[4] # PROTOCOL_VERSION THEN "error: Wrong protocol version"
    ELSE ""

(***************************************************************************)
(* The inputs of the model: what a peer may send and what a caller may     *)
(* hand to the codec.                                                      *)
(***************************************************************************)
\* {"type":"error","entity":"k"}
FrameError ==
    B(<< "{", "dq", "t", "y", "p", "e", "dq", ":", "dq", "e", "r", "r",
      "o", "r", "dq", ",", "dq", "e", "n", "t", "i", "t", "y", "dq", ":",
      "dq", "k", "dq", "}" >>)

\* {"type":"unknown","entity":{}}
FrameUnknown ==
    B(<< "{", "dq", "t", "y", "p", "e", "dq", ":", "dq", "u", "n", "k",
      "n", "o", "w", "n", "dq", ",", "dq", "e", "n", "t", "i", "t", "y",
      "dq", ":", "{", "}", "}" >>)

\* []
FrameArray ==
    B(<< "[", "]" >>)

\* {
FrameBadJson ==
    B(<< "{" >>)

\* {"entity":1}
FrameNoType ==
    B(<< "{", "dq", "e", "n", "t", "i", "t", "y", "dq", ":", "1", "}" >>)

\* {"type":"error"}
FrameNoEntity ==
    B(<< "{", "dq", "t", "y", "p", "e", "dq", ":", "dq", "e", "r", "r",
      "o", "r", "dq", "}" >>)

\* {"type":[],"entity":1}
FrameListType ==
    B(<< "{", "dq", "t", "y", "p", "e", "dq", ":", "[", "]", ",", "dq",
      "e", "n", "t", "i", "t", "y", "dq", ":", "1", "}" >>)

\* {"type":"error","entity":""}
FrameEmptyEntity ==
    B(<< "{", "dq", "t", "y", "p", "e", "dq", ":", "dq", "e", "r", "r",
      "o", "r", "dq", ",", "dq", "e", "n", "t", "i", "t", "y", "dq", ":",
      "dq", "dq", "}" >>)

\* A zero-length frame, and a frame that is not UTF-8.
FrameEmpty == << >>
FrameBadUtf8 == << 255 >>

\* The frames a peer sends to the server first and after the first, and the
\* frames a codec buffer holds.
ServerFrames ==
    { FrameError, FrameUnknown, FrameArray, FrameBadJson, FrameNoType,
      FrameNoEntity, FrameListType, FrameEmpty, FrameBadUtf8 }

FollowFrames == { FrameError, FrameArray, FrameEmpty }

CodecFrames ==
    { FrameError, FrameUnknown, FrameArray, FrameBadJson, FrameNoType,
      FrameEmptyEntity, FrameListType, FrameEmpty, FrameBadUtf8 }

\* The most frames in one stream, and the most bytes after its last
\* terminator.
MaxFrames == 2
MaxTail == 3

\* The unterminated bytes a stream may end with: none, or the first MaxTail
\* bytes of "okay".
Tails == { Take(B(<< "o", "k", "a", "y" >>), n) : n \in {0, MaxTail} }

\* Every frame of the tuple followed by its terminator.
RECURSIVE Terminated(_)
Terminated(fs) ==
    IF fs = << >> THEN << >>
    ELSE Head(fs) \o << 0 >> \o Terminated(Tail(fs))

\* The streams of at most MaxFrames terminated frames and a tail: the first
\* frame is of firstSet, the others of followSet.
Bodies(firstSet, followSet) ==
    UNION { { Terminated(fs) \o t :
                fs \in { f \in [1..n -> firstSet \cup followSet] :
                            \A i \in 2..n : f[i] \in followSet },
                t \in Tails } :
            n \in 0..MaxFrames }

\* What a peer sends from the start of the connection: the preamble and a
\* body, or a preamble that is too short, has the wrong magic number or
\* the wrong version.
Preamble == Append(MAGIC_NUMBER, PROTOCOL_VERSION)

PeerStreams ==
    { Preamble \o b : b \in Bodies(ServerFrames, FollowFrames) }
        \cup { Take(Preamble, n) : n \in 0..3 }
        \cup { << 202, 195, 86, 0 >> \o FrameError \o << 0 >>,
               Append(MAGIC_NUMBER, 1) \o FrameError \o << 0 >> }

\* The tags and the handlers given to register_handler.
HandlerTags == { ErrorTag }
Handlers == { "h1", "h2" }

\* The entities of the Message instances given to encode: values in
\* normalized form (to_python returns them unchanged), and "" which is not.
Entities ==
    { JStr(B(<< "k" >>)), JInt(0), JBool(FALSE), JList(<< JInt(1) >>),
      JDict(<< << EntityTag, JStr(<< 233 >>) >> >>), JStr(<< >>) }

(***************************************************************************)
(* The state.                                                              *)
(***************************************************************************)
VARIABLES
    types,          \* MessageMeta.types: type tag -> message class
    type_handlers,  \* server.type_handlers: type tag -> handler
    stream,         \* everything the peer sends, from the start
    entry,          \* how the connection was entered: "none", "handle"
                    \* (by the socketserver machinery) or "handler"
    pc,             \* where the connection's thread is
    exc,            \* the exception that ended it, or ""
    wire,           \* the bytes the peer has sent that no recv returned yet
    peer_closed,    \* a recv has returned b"": the peer closed
    buffer,         \* self.buffer
    log,            \* the events logged through self.log
    checks,         \* how many times the preamble check ran
    received,       \* every byte recv returned to _read_json
    frames,         \* the candidate frames _read_json cut from the buffer
    decoded,        \* the objects _read_json handed to _process_message
    calls,          \* the calls of type handlers: [handler, type, entity,
                    \* outcome], the outcome "running", "returned" or
                    \* "raised"
    raw,            \* the bytes of the BytesIO given to decode_from_buffer
    rawpos,         \* how many of them the BufferedReader has read
    rdbuf,          \* the bytes buffered in the BufferedReader, unread
    gen,            \* the generator of decode_from_buffer: "none",
                    \* "suspended", "finished" or "raised"
    genexc,         \* the exception that ended the generator, or ""
    yielded,        \* the Message instances the generator yielded
    toEncode,       \* << m >>: the Message instance to encode, or << >>
    encoded,        \* << r >>: what m.encode() returned or raised, or << >>
    first_handlers, \* history: type tag -> the handler of the first
                    \* register_handler call made for the tag
    last_register,  \* history: << >>, or << c >> for the last call of
                    \* register_handler: [type_, handler, duplicate, exc]
    defined,        \* history: the class statements executed under
                    \* MessageMeta after the import: [name, type_, schema,
                    \* exc]
    waiting         \* a second peer has connected and waits in the listen
                    \* queue of the server for its request to be processed

serverVars == << type_handlers, stream, entry, pc, exc, wire, peer_closed, buffer,
                 log, checks, received, frames, decoded, calls >>
codecVars == << raw, rawpos, rdbuf, gen, genexc, yielded, toEncode, encoded >>
startupVars == << first_handlers, last_register, defined >>
vars == << types, serverVars, codecVars, startupVars, waiting >>

(***************************************************************************)
(* The state after construction: the message module is imported, the       *)
(* server is constructed with no handler, and a behaviour has one input:   *)
(* a peer that connects and sends a stream, a buffer given to              *)
(* decode_from_buffer, a Message instance to encode, or class statements   *)
(* that define further message classes.                                    *)
(***************************************************************************)
NoPeer ==
    /\ entry = "none" /\ pc = "closed" /\ stream = << >>

NoBuffer ==
    /\ raw = << >> /\ gen = "none"

Init ==
    /\ types = ImportedTypes
    /\ type_handlers = << >>
    /\ exc = ""
    /\ peer_closed = FALSE
    /\ buffer = << >>
    /\ log = << >>
    /\ checks = 0
    /\ received = << >>
    /\ frames = << >>
    /\ decoded = << >>
    /\ calls = << >>
    /\ rawpos = 0
    /\ rdbuf = << >>
    /\ genexc = ""
    /\ yielded = << >>
    /\ encoded = << >>
    /\ first_handlers = << >>
    /\ last_register = << >>
    /\ defined = << >>
    /\ waiting = FALSE
    /\ \/ /\ entry = "none" /\ pc = "idle" /\ stream \in PeerStreams
          /\ NoBuffer /\ toEncode = << >>
       \/ /\ NoPeer /\ toEncode = << >>
          /\ raw \in Bodies(CodecFrames, CodecFrames) /\ gen = "suspended"
       \/ /\ NoPeer /\ NoBuffer
          /\ toEncode \in { << [cls |-> types[t], entity |-> e] >> :
                            t \in DOMAIN types, e \in Entities }
       \/ /\ NoPeer /\ NoBuffer /\ toEncode = << >>
    /\ wire = stream

(***************************************************************************)
(* A class statement `class <name>(Message)` executed after the import:    *)
(* MessageMeta.__new__ with the type_ and the schema the class body sets.  *)
(***************************************************************************)
\* The names, the type_ values and the schemas of the class statements.
ClassNames == { "Message", "Other" }
ClassTypes ==
    { JNone, JStr(<< >>), JStr(ErrorTag), JStr(UnknownTag), JInt(1),
      JList(<< JInt(1) >>) }
ClassSchemas == { "None", "NotEmpty" }

\* The most class statements executed in one behaviour.
MaxDefinitions == 2

DefineClass(name, type_, schema, made) ==
    /\ types' = made.types
    /\ defined' = Append(defined, [name |-> name, type_ |-> type_,
                                   schema |-> schema, exc |-> made.exc])

define_class ==
    /\ NoPeer /\ NoBuffer /\ toEncode = << >>
    /\ Len(defined) < MaxDefinitions
    /\ \E name \in ClassNames, type_ \in ClassTypes, schema \in ClassSchemas :
           DefineClass(name, type_, schema,
                       MessageMetaNew(types, name, type_, schema))
    /\ UNCHANGED << first_handlers, last_register, waiting, serverVars,
                    codecVars >>

(***************************************************************************)
(* ZordzmanServer.register_handler(type_, handler), called by the startup  *)
(* routine before the connection is served.                                *)
(***************************************************************************)
\* A register_handler that replaces the handler of a tag already registered.
RegisterHandlerReplacing(handlers, type_, h) ==
    [ok |-> TRUE, exc |-> "",
     handlers |-> [t \in DOMAIN handlers \cup {type_} |->
                       IF t = type_ THEN h ELSE handlers[t]]]

\* The dispatch table after register_handler, and whether it raised.
RegisterHandler(handlers, type_, h) ==
    IF type_ \in DOMAIN handlers
    THEN [ok |-> FALSE, exc |-> "ValueError", handlers |-> handlers]
    ELSE [ok |-> TRUE, exc |-> "",
          handlers |-> [t \in DOMAIN handlers \cup {type_} |->
                            IF t = type_ THEN h ELSE handlers[t]]]

\* The histories after the call register_handler(type_, h) whose outcome is
\* registered.
RegisterHistory(type_, h, registered) ==
    /\ first_handlers' =
           IF type_ \in DOMAIN first_handlers THEN first_handlers
           ELSE [t \in DOMAIN first_handlers \cup {type_} |->
                     IF t = type_ THEN h ELSE first_handlers[t]]
    /\ last_register' =
           << [type_ |-> type_, handler |-> h,
               duplicate |-> type_ \in DOMAIN first_handlers,
               exc |-> registered.exc] >>
    /\ type_handlers' = registered.handlers

register_handler ==
    /\ pc = "idle"
    /\ \E type_ \in HandlerTags, h \in Handlers :
           RegisterHistory(type_, h, RegisterHandler(type_handlers, type_, h))
    /\ UNCHANGED << types, defined, waiting, stream, entry, pc, exc, wire,
                    peer_closed, buffer, log, checks, received, frames,
                    decoded, calls, codecVars >>

(***************************************************************************)
(* request.recv(n): at least one and at most n of the bytes on the wire,   *)
(* wherever the transport cuts them, or b"" once the peer, having sent     *)
(* everything, closes.  It blocks while the wire is empty and the peer has *)
(* not closed.                                                             *)
(***************************************************************************)
RecvChunks(n) ==
    IF wire = << >> THEN { << >> }
    ELSE { Take(wire, k) : k \in 1..Min(n, Len(wire)) }

(***************************************************************************)
(* The socketserver machinery serving the accepted connection:             *)
(* BaseRequestHandler.__init__ calls setup(), handle() and finish().       *)
(* ZordzmanHandler defines handler(), not handle(), so the inherited       *)
(* handle() runs and does nothing; finish() then uses self.log, which only *)
(* handler() sets.                                                         *)
(***************************************************************************)
process_request ==
    /\ pc = "idle"
    /\ entry' = "handle"
    /\ pc' = "raised"
    /\ exc' = "AttributeError"
    /\ UNCHANGED << types, startupVars, waiting, type_handlers, stream,
                    wire, peer_closed, buffer, log, checks, received,
                    frames, decoded, calls, codecVars >>

(***************************************************************************)
(* ZordzmanServer is a socketserver.TCPServer: serve_forever() accepts and *)
(* processes one request at a time in the thread that called it, and       *)
(* constructing the handler of a request runs its whole handling.  A peer  *)
(* that connects while a connection is handled waits in the listen queue   *)
(* until the handling of that connection has ended.                        *)
(***************************************************************************)
\* The thread of the server is inside the handling of the connection.
Handling == entry # "none" /\ pc \in {"preamble", "read", "type_handler"}

\* The streams of the first peer with which a second peer is modelled: a
\* short preamble, and the preamble with one frame.
FirstPeerStreams ==
    { Take(Preamble, 2), Preamble \o FrameError \o << 0 >> }

\* A second peer connects, while the first connection is handled or after.
peer_connects ==
    /\ entry # "none"
    /\ stream \in FirstPeerStreams
    /\ ~waiting
    /\ waiting' = TRUE
    /\ UNCHANGED << types, startupVars, serverVars, codecVars >>

\* serve_forever() takes the waiting request and processes it: as for the
\* first, the inherited handle() does nothing and finish() raises, which
\* handle_error reports.
serve_next ==
    /\ waiting
    /\ ~Handling
    /\ waiting' = FALSE
    /\ UNCHANGED << types, startupVars, serverVars, codecVars >>

(***************************************************************************)
(* ZordzmanHandler.handler() called on the connection, up to recv(4).      *)
(***************************************************************************)
handler ==
    /\ pc = "idle"
    /\ entry' = "handler"
    /\ pc' = "preamble"
    /\ log' = Append(log, "info: Connection established")
    /\ UNCHANGED << types, startupVars, waiting, type_handlers, stream, exc,
                    wire, peer_closed, buffer, checks, received, frames,
                    decoded, calls, codecVars >>

(***************************************************************************)
(* handler() from the return of recv(4): the preamble check, then either   *)
(* the return or the entry of _read_json up to its first recv.             *)
(***************************************************************************)
handler_recv ==
    /\ pc = "preamble"
    /\ \E chunk \in RecvChunks(PREAMBLE_SIZE) :
           /\ wire' = Drop(wire, Len(chunk))
           /\ peer_closed' = (chunk = << >>)
           /\ checks' = checks + 1
           /\ IF PreambleCheck(chunk) = ""
              THEN /\ buffer' = << >>
                   /\ pc' = "read"
                   /\ log' = log
              ELSE /\ buffer' = chunk
                   /\ pc' = "returned"
                   /\ log' = Append(log, PreambleCheck(chunk))
    /\ UNCHANGED << types, startupVars, waiting, type_handlers, stream,
                    entry, exc, received, frames, decoded, calls,
                    codecVars >>

(***************************************************************************)
(* _read_json() from the return of recv(8192) to the next recv, to its     *)
(* return, to an exception, or to the call of a type handler.              *)
(***************************************************************************)
ReadJsonApply(chunk, step) ==
    /\ wire' = Drop(wire, Len(chunk))
    /\ peer_closed' = (chunk = << >>)
    /\ received' = received \o chunk
    /\ buffer' = step.buffer
    /\ frames' = frames \o step.frame
    /\ decoded' = decoded \o step.json
    /\ log' = IF step.event = "" THEN log ELSE Append(log, step.event)
    /\ exc' = step.exc
    /\ pc' = CASE step.kind = "continue" -> "read"
               [] step.kind \in {"eof", "return"} -> "returned"
               [] step.kind = "raise" -> "raised"
               [] step.kind = "call" -> "type_handler"
    /\ calls' = IF step.kind = "call"
                THEN Append(calls, [handler |-> type_handlers[step.type.v],
                                    type |-> step.type,
                                    entity |-> step.entity,
                                    outcome |-> "running"])
                ELSE calls

\* A loop whose dispatch takes the handler out of the table.
PoppingApply(chunk, step) ==
    /\ ReadJsonApply(chunk, step)
    /\ type_handlers' =
           IF step.kind = "call"
           THEN [t \in DOMAIN type_handlers \ {step.type.v} |->
                     type_handlers[t]]
           ELSE type_handlers

read_json_recv_popping ==
    /\ pc = "read"
    /\ \E chunk \in RecvChunks(RECV_SIZE) :
           PoppingApply(chunk, ReadJsonStep(buffer, chunk, type_handlers))
    /\ UNCHANGED << types, startupVars, waiting, stream, entry, checks,
                    codecVars >>

read_json_recv ==
    /\ pc = "read"
    /\ \E chunk \in RecvChunks(RECV_SIZE) :
           ReadJsonApply(chunk, ReadJsonStep(buffer, chunk, type_handlers))
    /\ UNCHANGED << types, startupVars, waiting, type_handlers, stream,
                    entry, checks, codecVars >>

(***************************************************************************)
(* The type handler called by _process_message returns, or raises: no      *)
(* try statement encloses the call, in _process_message, _read_json or     *)
(* handler().                                                              *)
(***************************************************************************)
\* The calls once the running one has ended.
Ended(cs, outcome) == [cs EXCEPT ![Len(cs)].outcome = outcome]

type_handler_returns ==
    /\ pc = "type_handler"
    /\ pc' = "read"
    /\ calls' = Ended(calls, "returned")
    /\ UNCHANGED << types, startupVars, waiting, type_handlers, stream,
                    entry, exc, wire, peer_closed, buffer, log, checks,
                    received, frames, decoded, codecVars >>

type_handler_raises ==
    /\ pc = "type_handler"
    /\ pc' = "raised"
    /\ exc' = "HandlerError"
    /\ calls' = Ended(calls, "raised")
    /\ UNCHANGED << types, startupVars, waiting, type_handlers, stream,
                    entry, wire, peer_closed, buffer, log, checks, received,
                    frames, decoded, codecVars >>

(***************************************************************************)
(* One next() of the generator Message.decode_from_buffer(buffer_): peek,  *)
(* find the terminator, and either finish or read the frame and decode it. *)
(***************************************************************************)
\* The generator after buffered.read(terminator + 1) and cls.decode.
YieldDecoded(peek, terminator, result) ==
    /\ rdbuf' = Drop(peek, terminator + 1)
    /\ gen' = IF result.ok THEN "suspended" ELSE "raised"
    /\ genexc' = result.exc
    /\ yielded' = yielded \o result.msg

decode_from_buffer ==
    /\ gen = "suspended"
    /\ LET peek == ReaderPeek(rdbuf, raw, rawpos)
           terminator == Find(peek, 0)
       IN  /\ rawpos' = IF rdbuf = << >> THEN rawpos + Len(peek) ELSE rawpos
           /\ IF terminator = -1
              THEN /\ gen' = "finished"
                   /\ rdbuf' = peek
                   /\ UNCHANGED << genexc, yielded >>
              ELSE YieldDecoded(peek, terminator,
                                MessageDecode(Take(peek, terminator), types))
    /\ UNCHANGED << types, startupVars, waiting, serverVars, raw, toEncode,
                    encoded >>

(***************************************************************************)
(* Message.encode() of the instance to encode.                             *)
(***************************************************************************)
encode ==
    /\ toEncode # << >>
    /\ encoded = << >>
    /\ encoded' = << MessageEncode(toEncode[1]) >>
    /\ UNCHANGED << types, startupVars, waiting, serverVars, raw, rawpos,
                    rdbuf, gen, genexc, yielded, toEncode >>

Next ==
    \/ define_class
    \/ register_handler
    \/ process_request
    \/ peer_connects
    \/ serve_next
    \/ handler
    \/ handler_recv
    \/ read_json_recv
    \/ type_handler_returns
    \/ type_handler_raises
    \/ decode_from_buffer
    \/ encode

Spec == Init /\ [][Next]_vars

(***************************************************************************)
(* The stream as terminated slices, counted on the bytes themselves.       *)
(***************************************************************************)
ZeroPositions(bytes) == { i \in 1..Len(bytes) : bytes[i] = 0 }

ZeroCount(bytes) == Cardinality(ZeroPositions(bytes))

\* The position of the k-th 0 byte, 0 for k = 0.
ZeroAt(bytes, k) ==
    IF k = 0 THEN 0
    ELSE CHOOSE i \in ZeroPositions(bytes) :
             Cardinality({ j \in ZeroPositions(bytes) : j <= i }) = k

LastZero(bytes) == ZeroAt(bytes, ZeroCount(bytes))

\* The bytes up to and including the last terminator, and those after it.
UpToLastZero(bytes) == SubSeq(bytes, 1, LastZero(bytes))
Unterminated(bytes) == SubSeq(bytes, LastZero(bytes) + 1, Len(bytes))

\* The k-th slice: the bytes between terminator k - 1 and terminator k.
SliceK(bytes, k) ==
    SubSeq(bytes, ZeroAt(bytes, k - 1) + 1, ZeroAt(bytes, k) - 1)

CompleteSlices(bytes) == [ k \in 1..ZeroCount(bytes) |-> SliceK(bytes, k) ]

Occurs(sub, bytes) ==
    \E i \in 0..(Len(bytes) - Len(sub)) :
        SubSeq(bytes, i + 1, i + Len(sub)) = sub

Logged(line) == \E i \in DOMAIN log : log[i] = line

(***************************************************************************)
(* C1: the sequence of candidate frames extracted from a client's stream   *)
(* does not depend on how the stream is cut into transport chunks: the     *)
(* frames extracted from the bytes received so far are those the same      *)
(* bytes give when they arrive as one chunk.                               *)
(***************************************************************************)
ChunkBoundaryIndependence ==
    (entry = "handler" /\ pc \in {"read", "returned"} /\ received # << >>)
        => frames = ReadJsonStep(<< >>, received, type_handlers).frame

(***************************************************************************)
(* C2: while the connection reads, the candidate frames are exactly the    *)
(* slices of the received bytes cut at every 0 byte, each without its      *)
(* terminator, and the buffer holds the bytes after the last terminator.   *)
(***************************************************************************)
FramesAreTheSlices ==
    (entry = "handler" /\ pc = "read")
        => /\ frames = CompleteSlices(received)
           /\ buffer = Unterminated(received)

(***************************************************************************)
(* C3: no message byte is read, framed, decoded or dispatched unless the   *)
(* first four bytes of the stream were the magic number and the protocol   *)
(* version; a connection whose preamble is short or wrong ends there.      *)
(***************************************************************************)
EnteredReadJson ==
    \/ pc \in {"read", "type_handler"}
    \/ received # << >>
    \/ frames # << >>
    \/ decoded # << >>
    \/ calls # << >>
    \/ Logged("debug: Connection terminated by client")

GoodPreamble(bytes) ==
    /\ Len(bytes) >= 4
    /\ SubSeq(bytes, 1, 4) = << 202, 195, 85, 0 >>

PreambleGate ==
    /\ EnteredReadJson
           => /\ GoodPreamble(stream)
              /\ checks = 1
              /\ Len(stream) - Len(wire) >= 4
    /\ (entry = "handler" /\ checks = 1 /\ ~GoodPreamble(stream))
           => /\ pc = "returned"
              /\ ~EnteredReadJson
              /\ \/ Logged("error: Incomplete protocol identifier")
                 \/ Logged("error: Bad magic number")
                 \/ Logged("error: Wrong protocol version")

\* A connection ended by a bad magic number.
BadMagicRefused ==
    /\ entry = "handler"
    /\ pc = "returned"
    /\ Len(stream) > 4
    /\ SubSeq(stream, 1, 3) # << 202, 195, 85 >>
    /\ Logged("error: Bad magic number")
    /\ ~EnteredReadJson

(***************************************************************************)
(* C4: every connection the server accepts has its preamble checked        *)
(* exactly once: once a connection's handling is past the handshake, one   *)
(* preamble check has been made on it.                                     *)
(***************************************************************************)
PreambleCheckedOnce ==
    (entry # "none" /\ pc \notin {"idle", "preamble"}) => checks = 1

(***************************************************************************)
(* C5: a connection ends as Incomplete only when the peer closed before    *)
(* sending four bytes.                                                     *)
(***************************************************************************)
IncompleteOnlyWhenClosed ==
    Logged("error: Incomplete protocol identifier") => peer_closed

(***************************************************************************)
(* C6: bytes that follow the last terminator are never decoded or          *)
(* dispatched before their own terminator arrives.  On a connection: the   *)
(* bytes after the last terminator received are still the end of the       *)
(* buffer, every extracted frame lies, with a terminator behind it, in     *)
(* the bytes up to the last terminator, no more messages are decoded than  *)
(* terminators were received, and one complete valid frame followed by     *)
(* unterminated bytes gives exactly one decoded message.  On a buffer:     *)
(* the generator yields no more messages than there are terminators, and   *)
(* when it finishes the unterminated bytes are what the reader still       *)
(* holds.                                                                  *)
(***************************************************************************)
FirstSliceLoads(bytes) ==
    /\ Utf8Decode(SliceK(bytes, 1)).ok
    /\ JsonLoads(Utf8Decode(SliceK(bytes, 1)).text).ok

UnterminatedBytesStayBuffered ==
    /\ entry = "handler"
           => /\ IsSuffix(Unterminated(received), buffer)
              /\ Len(decoded) <= ZeroCount(received)
              /\ Len(calls) <= Len(decoded)
              /\ \A i \in DOMAIN frames :
                     Occurs(frames[i] \o << 0 >>, UpToLastZero(received))
              /\ (ZeroCount(received) = 1 /\ FirstSliceLoads(received))
                     => /\ frames[1] = SliceK(received, 1)
                        /\ Len(decoded) = 1
    /\ gen # "none"
           => /\ Len(yielded) <= ZeroCount(raw)
              /\ gen = "finished"
                     => /\ rdbuf = Unterminated(raw)
                        /\ Len(yielded) = ZeroCount(raw)

\* The error frame decoded and dispatched, the bytes "oka" behind it still
\* buffered.
OneMessageThenUnterminated ==
    /\ entry = "handler"
    /\ pc = "read"
    /\ frames = << FrameError >>
    /\ Len(decoded) = 1
    /\ Len(calls) = 1
    /\ calls[1].entity = JStr(B(<< "k" >>))
    /\ received = FrameError \o << 0 >> \o B(<< "o", "k", "a" >>)
    /\ IsSuffix(B(<< "o", "k", "a" >>), buffer)

(***************************************************************************)
(* C7: a well-formed frame whose type has no handler registered is dropped *)
(* without raising: after such a frame was decoded, the connection's       *)
(* thread has not ended in an exception.                                   *)
(***************************************************************************)
Unhandled(message) ==
    /\ message.k = "dict"
    /\ DictHas(message, TypeTag)
    /\ DictHas(message, EntityTag)
    /\ DictGet(message, TypeTag).k = "str"
    /\ DictGet(message, TypeTag).v \notin DOMAIN type_handlers

UnhandledFrameDropped ==
    (decoded # << >> /\ Unhandled(decoded[Len(decoded)]))
        => /\ pc # "raised"
           /\ exc = ""

(***************************************************************************)
(* C8: a type handler that raises is caught at the dispatch boundary: the  *)
(* read loop of the connection goes on.                                    *)
(***************************************************************************)
HandlerFailureCaught ==
    (calls # << >> /\ calls[Len(calls)].outcome = "raised")
        => /\ pc = "read"
           /\ exc = ""

(***************************************************************************)
(* C9: for a registered kind and an entity already in normalized form,     *)
(* encode succeeds, its bytes end in a single 0 terminator, and decode of  *)
(* the bytes without the terminator gives the same kind and entity.        *)
(***************************************************************************)
Normalized(msg) ==
    /\ msg.cls.type_ \in DOMAIN types
    /\ SchemaToPython(msg.cls.schema, msg.entity)
           = [ok |-> TRUE, exc |-> "", val |-> msg.entity]

EncodeRoundTrip ==
    (encoded # << >> /\ Normalized(toEncode[1]))
        => /\ encoded[1].ok
           /\ ZeroPositions(encoded[1].val) = { Len(encoded[1].val) }
           /\ MessageDecode(SubSeq(encoded[1].val, 1,
                                   Len(encoded[1].val) - 1), types)
                  = [ok |-> TRUE, exc |-> "", msg |-> toEncode]

(***************************************************************************)
(* The cases of a frame handed to Message.decode, read off the frame       *)
(* itself: loaded is json.loads of its text, meaningful when the frame is  *)
(* UTF-8.                                                                  *)
(***************************************************************************)
IsObject(loaded) == loaded.ok /\ loaded.val.k = "dict"

RegisteredType(loaded) ==
    /\ DictHas(loaded.val, TypeTag)
    /\ DictGet(loaded.val, TypeTag).k = "str"
    /\ DictGet(loaded.val, TypeTag).v \in DOMAIN types

UnhashableType(loaded) ==
    /\ DictHas(loaded.val, TypeTag)
    /\ DictGet(loaded.val, TypeTag).k \in {"list", "dict"}

\* The entity a NotEmpty validator rejects: absent, null or empty.
RejectedEntity(loaded) ==
    \/ ~DictHas(loaded.val, EntityTag)
    \/ IsEmptyValue(DictGet(loaded.val, EntityTag))

\* The case of a frame: "utf8", "json", "object", "type", "entity" for the
\* five failures in the order decode meets them, "message" otherwise.
CaseOfLoaded(loaded) ==
    IF ~loaded.ok THEN "json"
    ELSE IF ~IsObject(loaded) THEN "object"
    ELSE IF ~RegisteredType(loaded) THEN "type"
    ELSE IF RejectedEntity(loaded) THEN "entity"
    ELSE "message"

CaseOfText(text) ==
    IF ~text.ok THEN "utf8" ELSE CaseOfLoaded(JsonLoads(text.text))

CaseOf(frame) == CaseOfText(Utf8Decode(frame))

\* The frame the generator decoded last, when it raised.
FailedFrame == SliceK(raw, Len(yielded) + 1)

\* The Message of a frame whose case is "message".
MessageOfLoaded(loaded) ==
    [cls |-> types[DictGet(loaded.val, TypeTag).v],
     entity |-> DictGet(loaded.val, EntityTag)]

MessageOf(frame) == MessageOfLoaded(JsonLoads(Utf8Decode(frame).text))

\* Every yielded Message is that of its frame, and its frame is in none of
\* the five cases.
YieldedAreMessages ==
    /\ Len(yielded) <= ZeroCount(raw)
    /\ \A k \in DOMAIN yielded :
           /\ CaseOf(SliceK(raw, k)) = "message"
           /\ yielded[k] = MessageOf(SliceK(raw, k))

(***************************************************************************)
(* C10 as stated: in each of the five cases (not UTF-8, not JSON, not an   *)
(* object, type not registered, entity rejected by the validator) decode   *)
(* fails with MessageError, and a Message comes only from a frame in none  *)
(* of them.                                                                *)
(***************************************************************************)
DecodeFailsWithMessageError ==
    /\ gen = "raised"
           => /\ CaseOf(FailedFrame) # "message"
              /\ genexc = "MessageError"
    /\ YieldedAreMessages

(***************************************************************************)
(* C10 amended: in each of the five cases decode returns no Message and    *)
(* raises: MessageError when the bytes are not UTF-8, the text is not      *)
(* JSON, the value is not an object, or the type is a hashable value that  *)
(* matches no registered kind; TypeError when the type field is an array   *)
(* or an object; the validator's own Invalid, not wrapped, when the        *)
(* validator rejects the entity.  A Message comes only from a registered   *)
(* type with an accepted entity.                                           *)
(***************************************************************************)
ErrorOfLoaded(loaded, case) ==
    IF case = "entity" THEN "Invalid"
    ELSE IF case = "type" /\ UnhashableType(loaded) THEN "TypeError"
    ELSE "MessageError"

ErrorOfCase(text, case) ==
    IF case \in {"type", "entity"}
    THEN ErrorOfLoaded(JsonLoads(text.text), case)
    ELSE "MessageError"

ErrorOf(frame) == ErrorOfCase(Utf8Decode(frame), CaseOf(frame))

DecodeFailureKinds ==
    /\ gen = "raised"
           => /\ CaseOf(FailedFrame) # "message"
              /\ genexc = ErrorOf(FailedFrame)
    /\ gen \in {"suspended", "finished"} => genexc = ""
    /\ YieldedAreMessages

\* The validator rejected the entity of a registered type: decode raised
\* Invalid and gave no Message.
ValidatorRejectionPropagated ==
    /\ gen = "raised"
    /\ genexc = "Invalid"
    /\ CaseOf(FailedFrame) = "entity"
    /\ FailedFrame = FrameEmptyEntity

(***************************************************************************)
(* C11: register_handler for a tag that already has a handler raises at    *)
(* the call and leaves the dispatch table as it was: whatever calls were   *)
(* made, each tag maps to one handler, the first registered for it, and    *)
(* the last call raised exactly when its tag had a handler already.        *)
(***************************************************************************)
FirstHandlerKept ==
    /\ type_handlers = first_handlers
    /\ \A i \in DOMAIN last_register :
           /\ last_register[i].type_ \in DOMAIN type_handlers
           /\ last_register[i].exc =
                  IF last_register[i].duplicate THEN "ValueError" ELSE ""
           /\ ~last_register[i].duplicate
                  => type_handlers[last_register[i].type_]
                         = last_register[i].handler

\* A second handler was refused for a tag: the first is still the one
\* registered.
DuplicateHandlerRefused ==
    /\ last_register # << >>
    /\ last_register[1].duplicate
    /\ last_register[1].exc = "ValueError"
    /\ type_handlers[last_register[1].type_] # last_register[1].handler

(***************************************************************************)
(* C12: a class statement whose type is already in the registry raises     *)
(* when it is executed and leaves the registry as it was: whatever         *)
(* statements were executed, every tag of the registry is a non-empty      *)
(* string and maps to the first class registered under it.                 *)
(***************************************************************************)
\* Statement i sets a non-empty string type and a schema, and its class is
\* not named Message.
Registrable(i) ==
    /\ defined[i].name # "Message"
    /\ defined[i].type_.k = "str"
    /\ defined[i].type_.v # << >>
    /\ defined[i].schema # "None"

\* The type of statement i was registered before it: at the import, or by
\* an earlier statement.
RegisteredBefore(i) ==
    \/ defined[i].type_.v \in { ErrorTag }
    \/ \E j \in 1..(i - 1) :
           Registrable(j) /\ defined[j].type_ = defined[i].type_

FirstStatementOf(tag) ==
    CHOOSE i \in DOMAIN defined :
        /\ Registrable(i)
        /\ defined[i].type_.v = tag
        /\ ~RegisteredBefore(i)

FirstKindKept ==
    /\ DOMAIN types =
           { ErrorTag } \cup { defined[i].type_.v :
                                i \in { j \in DOMAIN defined : Registrable(j) } }
    /\ \A tag \in DOMAIN types :
           /\ tag # << >>
           /\ types[tag].type_ = tag
           /\ types[tag].name =
                  IF tag = ErrorTag THEN "ErrorMessage"
                  ELSE defined[FirstStatementOf(tag)].name
    /\ \A i \in DOMAIN defined :
           (defined[i].exc = "") =
               \/ defined[i].name = "Message"
               \/ Registrable(i) /\ ~RegisteredBefore(i)
    /\ \A i \in DOMAIN defined : defined[i].exc \in { "", "TypeError" }

\* A class statement with the type of ErrorMessage raised, and the registry
\* still holds ErrorMessage.
DuplicateTypeRefused ==
    /\ defined # << >>
    /\ defined[Len(defined)].name = "Other"
    /\ defined[Len(defined)].type_ = JStr(ErrorTag)
    /\ defined[Len(defined)].schema = "NotEmpty"
    /\ defined[Len(defined)].exc = "TypeError"
    /\ types[ErrorTag] = ErrorMessage

(***************************************************************************)
(* C13: a zero-length frame is not skipped: it is extracted and passed to  *)
(* decode, where it fails (malformed-JSON termination on a connection,     *)
(* MessageError in the codec).  So a read loop that ended because the peer *)
(* closed, and a generator that finished, have met no zero-length slice,   *)
(* and an empty frame extracted last has ended the connection with the     *)
(* malformed-JSON report and no exception.                                 *)
(***************************************************************************)
NoEmptySlice(bytes) ==
    \A k \in 1..ZeroCount(bytes) : SliceK(bytes, k) # << >>

ZeroLengthFrameDecoded ==
    /\ Logged("debug: Connection terminated by client")
           => NoEmptySlice(received)
    /\ (frames # << >> /\ frames[Len(frames)] = << >>)
           => /\ pc = "returned"
              /\ exc = ""
              /\ Logged("exception: Malformed JSON message")
    /\ gen = "finished" => NoEmptySlice(raw)
    /\ (gen = "raised" /\ FailedFrame = << >>) => genexc = "MessageError"

(***************************************************************************)
(* C14: a JSON object that lacks the type field, whose type is not a       *)
(* string, or that lacks the entity field is rejected by _process_message: *)
(* an error is logged, no handler is called for it and nothing is raised.  *)
(***************************************************************************)
LacksField(message) ==
    /\ message.k = "dict"
    /\ \/ ~DictHas(message, TypeTag)
       \/ DictGet(message, TypeTag).k # "str"
       \/ ~DictHas(message, EntityTag)

MalformedEnvelopeRejected ==
    (decoded # << >> /\ LacksField(decoded[Len(decoded)]))
        => /\ pc # "raised"
           /\ exc = ""
           /\ log[Len(log)] \in
                  { "error: Message missing type field or type field is the wrong type",
                    "error: Message doesn't contain an entity field" }

(***************************************************************************)
(* C15: whenever _read_json is about to wait for more input, the buffer of *)
(* the connection contains no 0 byte.                                      *)
(***************************************************************************)
BufferHoldsNoTerminator ==
    (entry = "handler" /\ pc = "read") => ZeroCount(buffer) = 0

(***************************************************************************)
(* C16: a decode failure is fatal to the connection: once a frame that is  *)
(* not UTF-8, not JSON, or not a JSON object has been extracted, the read  *)
(* loop has ended, that frame is the last one extracted, and no handler    *)
(* has been called since.                                                  *)
(***************************************************************************)
DecodeFailure(frame) == CaseOf(frame) \in { "utf8", "json", "object" }

DecodeFailureFatal ==
    \A i \in DOMAIN frames :
        DecodeFailure(frames[i])
            => /\ pc = "returned"
               /\ i = Len(frames)
               /\ Len(calls) < i

(***************************************************************************)
(* C17: when the stream ends while the read loop waits, whatever the       *)
(* buffer holds, the loop ends normally: the step that meets the end of    *)
(* the stream reports the termination, extracts no frame, decodes nothing, *)
(* calls no handler, raises nothing and leaves the buffered bytes          *)
(* undecoded.                                                              *)
(***************************************************************************)
\* The connection's thread takes a step.
ThreadStep ==
    << pc, exc, peer_closed, buffer, log, received, frames, decoded, calls >>'
        # << pc, exc, peer_closed, buffer, log, received, frames, decoded,
             calls >>

EndOfStreamDiscards ==
    [][(pc = "read" /\ wire = << >> /\ ThreadStep)
          => /\ pc' = "returned"
             /\ exc' = ""
             /\ peer_closed'
             /\ frames' = frames
             /\ decoded' = decoded
             /\ calls' = calls
             /\ buffer' = buffer
             /\ log' = Append(log, "debug: Connection terminated by client")]_vars

\* The loop ended at the end of the stream with unterminated bytes in the
\* buffer.
ResidueDiscarded ==
    /\ pc = "returned"
    /\ exc = ""
    /\ log[Len(log)] = "debug: Connection terminated by client"
    /\ buffer # << >>
    /\ buffer[Len(buffer)] # 0
    /\ Unterminated(received) # << >>
    /\ IsSuffix(Unterminated(received), buffer)

(***************************************************************************)
(* C18: connections are handled independently: while a connection is open  *)
(* and its handling waits for input or is inside a slow type handler, a    *)
(* second peer that has connected can be served.                           *)
(***************************************************************************)
ConnectionsIndependent ==
    (waiting /\ entry = "handler" /\ pc \in {"preamble", "read", "type_handler"})
        => ENABLED serve_next

(***************************************************************************)
(* C19: every call of a type handler answers exactly one frame of the      *)
(* connection: the calls are, in order, those of the messages handed to    *)
(* _process_message that have a string type with a handler and an entity;  *)
(* each call goes to the handler registered for the type of its message    *)
(* and receives the entity of that message; the messages are, in order,    *)
(* the frames that decode and load; and only the last call may be running. *)
(***************************************************************************)
Dispatchable(message) ==
    /\ message.k = "dict"
    /\ DictHas(message, TypeTag)
    /\ DictHas(message, EntityTag)
    /\ DictGet(message, TypeTag).k = "str"
    /\ DictGet(message, TypeTag).v \in DOMAIN first_handlers

Loads(frame) == CaseOf(frame) \notin { "utf8", "json" }

LoadedOf(frame) == JsonLoads(Utf8Decode(frame).text).val

DispatchExact ==
    /\ Len(calls) = Len(SelectSeq(decoded, Dispatchable))
    /\ \A i \in DOMAIN calls :
           /\ calls[i].type = DictGet(SelectSeq(decoded, Dispatchable)[i], TypeTag)
           /\ calls[i].entity
                  = DictGet(SelectSeq(decoded, Dispatchable)[i], EntityTag)
           /\ calls[i].handler = first_handlers[calls[i].type.v]
           /\ (calls[i].outcome = "running")
                  = (i = Len(calls) /\ pc = "type_handler")
    /\ Len(decoded) = Len(SelectSeq(frames, Loads))
    /\ \A j \in DOMAIN decoded :
           decoded[j] = LoadedOf(SelectSeq(frames, Loads)[j])

\* The error frame was dispatched to the handler registered for "error"
\* with its entity "k", and the handler returned.
DispatchedOnce ==
    /\ frames = << FrameError >>
    /\ Len(calls) = 1
    /\ calls[1].type = JStr(ErrorTag)
    /\ calls[1].entity = JStr(B(<< "k" >>))
    /\ calls[1].handler = type_handlers[ErrorTag]
    /\ calls[1].outcome = "returned"
    /\ pc = "read"

(***************************************************************************)
(* C20: the registry of message classes and the dispatch table are only    *)
(* read while a connection is handled or a buffer is decoded: no step of   *)
(* the handshake, of the read loop, of a dispatch or of the generator      *)
(* changes MessageMeta.types or server.type_handlers.                      *)
(***************************************************************************)
HandlingStep ==
    \/ pc' # pc
    \/ buffer' # buffer
    \/ received' # received
    \/ frames' # frames
    \/ log' # log
    \/ gen' # gen
    \/ rdbuf' # rdbuf
    \/ yielded' # yielded

RegistriesReadOnly ==
    [][HandlingStep => (types' = types /\ type_handlers' = type_handlers)]_vars

\* A connection met a frame of a type with no handler: its handling ended
\* and the table still holds the handler registered for "error".
HandledWithRegistries ==
    /\ frames = << FrameUnknown >>
    /\ pc = "raised"
    /\ type_handlers = first_handlers
    /\ DOMAIN type_handlers = { ErrorTag }
    /\ types = ImportedTypes

====
